---- MODULE Spec2Model ----
(***************************************************************************)
(* GINA ground control station (src/GCS): the ControlPanel's serial link,  *)
(* the SerialMonitor worker thread and the console's handling of received  *)
(* lines.                                                                  *)
(*                                                                         *)
(* Text is modelled as a sequence of tokens (strings): "a" + "b" is        *)
(* <<"a">> \o <<"b">>.  A prefix such as "TLM:" or "CMD:" is one token, a  *)
(* JSON text is the sequence of its lexical tokens, "\n", "\r" and " " are *)
(* the whitespace tokens.                                                  *)
(*                                                                         *)
(* Two threads run: the GUI thread (every ControlPanel method, and every   *)
(* slot connected to data_received, runs on it, one at a time) and the     *)
(* QThread of the current SerialMonitor.  A GUI method is one action,      *)
(* except that it is split where it blocks in QThread.wait().              *)
(***************************************************************************)
EXTENDS Integers, Sequences, FiniteSets, TLC

\* ---------------------------------------------------------------- bounds
\* Inputs of one run: edits of the port and baudrate fields, connectToHome
\* calls, commands issued, lines the device begins to send and transient
\* readline() faults of the transport, together.
MaxInputs == 4

\* ------------------------------------------------------------ text helpers
Whitespace == {" ", "\r", "\n", "\t"}

RECURSIVE LStrip(_)
LStrip(s) == IF s # <<>> /\ Head(s) \in Whitespace THEN LStrip(Tail(s)) ELSE s

RECURSIVE RStrip(_)
RStrip(s) ==
    IF s # <<>> /\ s[Len(s)] \in Whitespace
    THEN RStrip(SubSeq(s, 1, Len(s) - 1))
    ELSE s

\* str.strip()
Strip(s) == RStrip(LStrip(s))

Contains(s, prefix) == \E n \in 1..Len(s) : s[n] = prefix
\* str.startswith(prefix), for a one-token prefix
StartsWith(s, prefix) == s # <<>> /\ Head(s) = prefix

\* repr(message) of a str: quoted, the newline escaped
Repr(s) ==
    <<"'">> \o [i \in 1..Len(s) |-> IF s[i] = "\n" THEN "\\n" ELSE s[i]] \o <<"'">>

Last(s) == s[Len(s)]

\* ------------------------------------------------------------------- json
\* The JSON number tokens of the model and their values.
NumVal == [t \in {"500", "600", "1000"} |->
              IF t = "500" THEN 500 ELSE IF t = "600" THEN 600 ELSE 1000]
IsNumber(t) == t \in DOMAIN NumVal
\* JSON string tokens carry their quotes.
IsJsonString(t) == t \in {"\"abc\""}
IsScalar(t) == IsNumber(t) \/ IsJsonString(t)
JsonKeys == {"psi_fuel", "psi_ox", "load"}

\* toks is the text of a JSON object: "{" key value ... "}"
IsObjectText(toks) ==
    /\ Len(toks) >= 2
    /\ toks[1] = "{"
    /\ toks[Len(toks)] = "}"
    /\ (Len(toks) - 2) % 2 = 0
    /\ \A k \in 1..((Len(toks) - 2) \div 2) :
          /\ toks[2 * k] \in JsonKeys
          /\ IsScalar(toks[2 * k + 1])

\* json.loads(text): kind "error" is JSONDecodeError; a "dict" has its keys
\* and the value token of each (the last occurrence of a key wins).
JsonLoads(toks) ==
    IF IsObjectText(toks) THEN
        LET n == (Len(toks) - 2) \div 2
            ks == {toks[2 * k] : k \in 1..n}
            at(key) == CHOOSE k \in 1..n :
                          /\ toks[2 * k] = key
                          /\ \A j \in 1..n : toks[2 * j] = key => j <= k
        IN [kind |-> "dict", keys |-> ks,
            val |-> [key \in ks |-> toks[2 * at(key) + 1]]]
    ELSE IF Len(toks) = 1 /\ IsScalar(toks[1]) THEN
        [kind |-> "scalar", keys |-> {}, val |-> <<>>]
    ELSE IF toks = <<"[", "]">> THEN
        [kind |-> "list", keys |-> {}, val |-> <<>>]
    ELSE
        [kind |-> "error", keys |-> {}, val |-> <<>>]

GramsAsKilograms(g) == g * 1000
\* g * 9.81 / 1000 newtons, held exactly as micro-newtons
g_to_N(g) == g * 9810

\* --------------------------------------------------------------- commands
\* ValveState: the values of the enum's members
ValveValue == {"OPEN", "CLOSE", "NEUTRAL"}
\* The four ValveSwitch widgets of initUI, each named by the key prefix its
\* callback uses.
ValveKey == {"FUEL_PRESSURIZATION:", "FUEL_DEPRESSURIZATION:",
             "FUEL_RELEASE:", "OX_RELEASE:"}
\* ValveSwitch.name of each
ValveName == [k \in ValveKey |->
                 IF k = "FUEL_PRESSURIZATION:" THEN "Fuel Pressurization Valve"
                 ELSE IF k = "FUEL_DEPRESSURIZATION:" THEN "Fuel De-pressurization Valve"
                 ELSE IF k = "FUEL_RELEASE:" THEN "Fuel Release Valve"
                 ELSE "OX Release Valve"]
\* What initUI looks up: the three fixed buttons, and for every ValveSwitch
\* its prefix + state.value
CommandKeys ==
    {<<"IGN">>, <<"CLOSE_ALL">>, <<"OPEN_ALL">>}
        \cup {<<k, v>> : k \in ValveKey, v \in ValveValue}
ReleaseValvesSwapped ==
    [key \in CommandKeys |->
        IF Len(key) = 1 THEN <<"CMD:", key[1], "\n">>
        ELSE <<"CMD:",
               IF key[1] = "FUEL_PRESSURIZATION:" THEN "V1:"
               ELSE IF key[1] = "FUEL_DEPRESSURIZATION:" THEN "V2:"
               ELSE IF key[1] = "FUEL_RELEASE:" THEN "V4:"
               ELSE "V3:",
               key[2], "\n">>]
\* the COMMANDS dict: key text |-> frame text
COMMANDS ==
    (<<"IGN">> :> <<"CMD:", "IGN", "\n">>)
    @@ (<<"FUEL_PRESSURIZATION:", "OPEN">> :> <<"CMD:", "V1:", "OPEN", "\n">>)
    @@ (<<"FUEL_PRESSURIZATION:", "CLOSE">> :> <<"CMD:", "V1:", "CLOSE", "\n">>)
    @@ (<<"FUEL_PRESSURIZATION:", "NEUTRAL">> :> <<"CMD:", "V1:", "NEUTRAL", "\n">>)
    @@ (<<"FUEL_DEPRESSURIZATION:", "OPEN">> :> <<"CMD:", "V2:", "OPEN", "\n">>)
    @@ (<<"FUEL_DEPRESSURIZATION:", "CLOSE">> :> <<"CMD:", "V2:", "CLOSE", "\n">>)
    @@ (<<"FUEL_DEPRESSURIZATION:", "NEUTRAL">> :> <<"CMD:", "V2:", "NEUTRAL", "\n">>)
    @@ (<<"FUEL_RELEASE:", "OPEN">> :> <<"CMD:", "V3:", "OPEN", "\n">>)
    @@ (<<"FUEL_RELEASE:", "CLOSE">> :> <<"CMD:", "V3:", "CLOSE", "\n">>)
    @@ (<<"FUEL_RELEASE:", "NEUTRAL">> :> <<"CMD:", "V3:", "NEUTRAL", "\n">>)
    @@ (<<"OX_RELEASE:", "OPEN">> :> <<"CMD:", "V4:", "OPEN", "\n">>)
    @@ (<<"OX_RELEASE:", "CLOSE">> :> <<"CMD:", "V4:", "CLOSE", "\n">>)
    @@ (<<"OX_RELEASE:", "NEUTRAL">> :> <<"CMD:", "V4:", "NEUTRAL", "\n">>)
    @@ (<<"CLOSE_ALL">> :> <<"CMD:", "CLOSE_ALL", "\n">>)
    @@ (<<"OPEN_ALL">> :> <<"CMD:", "OPEN_ALL", "\n">>)

\* --------------------------------------------------------- configuration
\* Texts the operator types into the port and baudrate fields.
PortTexts == {"/dev/pts/6", "/dev/ttyUSB0", "/dev/ttyUSB9"}
BaudTexts == {"115200", "abc", "0", "-1"}
\* Paths at which a device node exists (opening one can still fail).
DevicePorts == {"/dev/pts/6", "/dev/ttyUSB0"}
\* int(text): defined on the texts that are integer literals
IntOf == [t \in {"115200", "9600", "0", "-1"} |->
             IF t = "115200" THEN 115200 ELSE IF t = "9600" THEN 9600
             ELSE IF t = "0" THEN 0 ELSE -1]
IsIntText(t) == t \in DOMAIN IntOf
\* Texts the operator types into the command field ("" is <<>>).
CommandTexts == {<<>>, <<"V2:30">>}

\* Lines the device can send; each ends with its newline.
TlmLine == <<"TLM:", "{", "psi_fuel", "500", "psi_ox", "600", "}", "\n">>
TlmLoadLine ==
    <<"TLM:", "{", "psi_fuel", "500", "psi_ox", "600", "load", "1000", "}", "\r", "\n">>
DebugLine == <<"hello world", "\r", "\n">>
HeartbeatLine == <<"HBT:", "3", "\n">>
\* telemetry with the keys in another order, and a line that only quotes one
TlmSwappedLine == <<"TLM:", "{", "psi_ox", "1000", "psi_fuel", "600", "}", "\n">>
EchoLine == <<"echo ", "TLM:", "{", "psi_fuel", "500", "psi_ox", "600", "}", "\n">>
WellFormedLines ==
    {TlmLine, TlmLoadLine, TlmSwappedLine, DebugLine, EchoLine, HeartbeatLine}
MalformedLines ==
    { <<"TLM:", "not-json", "\n">>,
      <<"TLM:", "500", "\n">>,
      <<"TLM:", "[", "]", "\n">>,
      <<"TLM:", "{", "psi_fuel", "500", "}", "\n">>,
      <<"TLM:", "{", "psi_ox", "600", "}", "\n">>,
      <<"TLM:", "{", "psi_fuel", "\"abc\"", "psi_ox", "600", "}", "\n">>,
      <<"TLM:", "{", "psi_fuel", "500", "psi_ox", "600", "load", "\"abc\"", "}", "\n">> }
DeviceLines == WellFormedLines \cup MalformedLines
\* The lines of a session in which the operator also acts.
SessionLines == {TlmLoadLine, DebugLine, <<"TLM:", "not-json", "\n">>}

\* ------------------------------------------------------------------ state
Handles == 0..MaxInputs     \* 0 is the serial.Serial() made by __init__
Ids == 1..MaxInputs         \* the k-th successful connect makes handle, monitor and thread k

VARIABLES
    serial_port_path,       \* ControlPanel.serial_port_path
    serial_baudrate,        \* ControlPanel.serial_baudrate (text)
    serial_connection,      \* ControlPanel.serial_connection: a handle
    serial_monitor,         \* ControlPanel.serial_monitor: 0 while the attribute is unset
    serial_monitor_thread,  \* ControlPanel.serial_monitor_thread: 0 is None
    is_open,                \* Serial.is_open of every handle
    guiPc,                  \* "idle", or the wait() the GUI thread is blocked in
    guiQueue,               \* data_received emissions queued for the GUI thread: [src, data, stopped]
    serial_terminal,        \* lines appended to the SerialOutputTerminal
    psi_data,               \* PressureGraph: <<psi_fuel, psi_ox>> samples appended
    load_data,              \* ThrustGraph: samples appended (micro-newtons)
    mpc,                    \* position of every monitor thread
    running,                \* SerialMonitor._running of every monitor
    quitReq,                \* QThread.quit() has been called on the thread
    rx,                     \* complete lines waiting in the handle's input buffer
    partial,                \* bytes of an unfinished line wait in the input buffer
    written,                \* frames written to the transport: <<handle, frame>>
    fault,                  \* the unhandled exception that ended the process, or "none"
    link,                   \* the connection as the operator was told
    issued,                 \* commands handed to transmitMessage, with link at that time
    nInputs,                \* inputs made so far
    state_,                 \* ValveSwitch.state_ of every valve switch
    label_                  \* ValveSwitch.label_ text of every valve switch

vars == <<serial_port_path, serial_baudrate, serial_connection, serial_monitor,
          serial_monitor_thread, is_open, guiPc, guiQueue, serial_terminal,
          psi_data, load_data, mpc, running, quitReq, rx, partial, written,
          fault, link, issued, nInputs, state_, label_>>

config == <<serial_port_path, serial_baudrate>>
panel == <<serial_connection, serial_monitor, serial_monitor_thread>>
graphs == <<psi_data, load_data>>
threads == <<mpc, running, quitReq>>
transport == <<rx, partial>>
budget == nInputs
valves == <<state_, label_>>

\* f"{self.name} [{self.state_.value}]"
LabelText(v, state) == <<ValveName[v], " [", state, "]">>

\* ControlPanel.__init__: an unopened Serial, no thread, no serial_monitor attribute
Init ==
    /\ serial_port_path = "/dev/pts/6"
    /\ serial_baudrate = "115200"
    /\ serial_connection = 0
    /\ serial_monitor = 0
    /\ serial_monitor_thread = 0
    /\ is_open = [h \in Handles |-> FALSE]
    /\ guiPc = "idle"
    /\ guiQueue = <<>>
    /\ serial_terminal = <<>>
    /\ psi_data = <<>>
    /\ load_data = <<>>
    /\ mpc = [i \in Ids |-> "unborn"]
    /\ running = [i \in Ids |-> FALSE]
    /\ quitReq = [i \in Ids |-> FALSE]
    /\ rx = [h \in Handles |-> 0]
    /\ partial = [h \in Handles |-> FALSE]
    /\ written = <<>>
    /\ fault = "none"
    /\ link = "Disconnected"
    /\ issued = <<>>
    /\ nInputs = 0
    /\ state_ = [v \in ValveKey |-> "CLOSE"]
    /\ label_ = [v \in ValveKey |-> LabelText(v, "CLOSE")]

\* The GUI thread is in its event loop and the process is alive.
\* One more input is made.
Input == nInputs < MaxInputs /\ nInputs' = nInputs + 1

GuiIdle == guiPc = "idle" /\ fault = "none"

\* ------------------------------------------------------------ GUI thread
PathEditCloses(path) ==
    /\ GuiIdle
    /\ Input
    /\ serial_port_path' = path
    /\ is_open' = [is_open EXCEPT ![serial_connection] = FALSE]
    /\ UNCHANGED <<serial_baudrate, valves, panel, guiPc, guiQueue, serial_terminal,
                   graphs, threads, transport, written, fault, link, issued>>
setSerialPortPath(path) ==
    /\ GuiIdle
    /\ Input
    /\ serial_port_path' = path
    /\ UNCHANGED <<serial_baudrate, valves, panel, is_open, guiPc, guiQueue, serial_terminal,
                   graphs, threads, transport, written, fault, link, issued>>

setSerialBaudrate(baudrate) ==
    /\ GuiIdle
    /\ Input
    /\ serial_baudrate' = baudrate
    /\ UNCHANGED <<serial_port_path, valves, panel, is_open, guiPc, guiQueue, serial_terminal,
                   graphs, threads, transport, written, fault, link, issued>>

\* SerialMonitor.stop() and QThread.quit() on monitor and thread t
StopAndQuit(t) ==
    /\ running' = [running EXCEPT ![t] = FALSE]
    /\ quitReq' = [quitReq EXCEPT ![t] = TRUE]

WaitSkipsJoin(t) == TRUE
\* QThread.wait() on thread t returns: the thread has finished executing
WaitReturns(t) == mpc[t] = "finished"

\* connectToHome up to the wait(): stop the monitor of an existing thread
ConnectBegin ==
    /\ GuiIdle
    /\ Input
    /\ guiPc' = "connect_wait"
    /\ IF serial_monitor_thread # 0
       THEN StopAndQuit(serial_monitor) /\ UNCHANGED mpc
       ELSE UNCHANGED threads
    /\ UNCHANGED <<config, valves, panel, is_open, guiQueue, serial_terminal, graphs,
                   transport, written, fault, link, issued>>

KeepOpen(h) == is_open
\* is_open of every handle after handle h has been closed (close() of a
\* closed Serial does nothing)
AfterClose(h) == [is_open EXCEPT ![h] = FALSE]

OpenBeforeParse(path, baudText) ==
    IF path \notin DevicePorts THEN {"SerialException"}
    ELSE IF ~IsIntText(baudText) \/ IntOf[baudText] < 0 THEN {"ValueError"}
    ELSE {"ok", "SerialException"}
\* What serial.Serial(path, int(baudText)) can do: int() raises ValueError on
\* a text that is no integer, Serial raises ValueError on a negative baudrate
\* before it opens anything (zero passes both), and the open raises
\* SerialException.
OpenOutcomes(path, baudText) ==
    IF ~IsIntText(baudText) THEN {"ValueError"}
    ELSE IF IntOf[baudText] < 0 THEN {"ValueError"}
    ELSE IF path \in DevicePorts THEN {"ok", "SerialException"}
    ELSE {"SerialException"}

RestartMonitor == IF serial_monitor # 0 THEN serial_monitor ELSE 1
\* the id of the next handle, monitor and thread
NewId == 1 + Cardinality({i \in Ids : mpc[i] # "unborn"})

ValvesReset == [v \in ValveKey |-> "CLOSE"]
\* state_ of every valve switch after connectToHome, which touches no
\* ValveSwitch
ValvesOnConnect == state_

\* connectToHome from the wait() on: close, open, start the monitor thread
ConnectFinish ==
    /\ guiPc = "connect_wait"
    /\ fault = "none"
    /\ serial_monitor_thread # 0 => WaitReturns(serial_monitor_thread)
    /\ guiPc' = "idle"
    /\ \E outcome \in OpenOutcomes(serial_port_path, serial_baudrate) :
          CASE outcome = "SerialException" ->
                 /\ is_open' = AfterClose(serial_connection)
                 /\ serial_terminal' = Append(serial_terminal,
                        <<"SERIAL EXCEPTION: Connection to serial port ",
                          serial_port_path, " failed.">>)
                 /\ link' = "FailedToOpen"
                 /\ UNCHANGED <<panel, threads>>
            [] outcome = "ValueError" ->
                 /\ is_open' = AfterClose(serial_connection)
                 /\ serial_terminal' = Append(serial_terminal,
                        <<"VALUE EXCEPTION: Invalid baudrate ", serial_baudrate, ".">>)
                 /\ link' = "FailedToOpen"
                 /\ UNCHANGED <<panel, threads>>
            [] outcome = "ok" ->
                 /\ is_open' = [AfterClose(serial_connection) EXCEPT ![NewId] = TRUE]
                 /\ serial_terminal' = Append(serial_terminal,
                        <<"Serial connection to ", serial_port_path, " successful.">>)
                 /\ serial_connection' = NewId
                 /\ serial_monitor' = NewId
                 /\ serial_monitor_thread' = NewId
                 /\ running' = [running EXCEPT ![NewId] = TRUE]
                 /\ mpc' = [mpc EXCEPT ![NewId] = "started"]
                 /\ link' = "Connected"
                 /\ UNCHANGED quitReq
    \* the closed handle's unread input is gone
    /\ rx' = [rx EXCEPT ![serial_connection] = 0]
    /\ partial' = [partial EXCEPT ![serial_connection] = FALSE]
    /\ state_' = ValvesOnConnect
    /\ UNCHANGED <<config, label_, guiQueue, graphs, written, fault, issued, budget>>

IsOpenUnchecked(h) == TRUE
\* Serial.is_open of handle h
IsOpen(h) == is_open[h]

\* transmitMessage(message), called after the caller has appended the lines
\* `said` to the terminal
TransmitAfter(said, message) ==
    /\ issued' = Append(issued, [frame |-> message, link |-> link])
    /\ IF IsOpen(serial_connection)
       THEN /\ written' = Append(written, <<serial_connection, message>>)
            /\ serial_terminal' = Append(serial_terminal \o said,
                   <<"Wrote \"">> \o Repr(message) \o <<"\" to serial.">>)
       ELSE /\ serial_terminal' = Append(serial_terminal \o said, <<"Not connected.">>)
            /\ UNCHANGED written
    /\ UNCHANGED <<config, panel, is_open, guiPc, guiQueue, graphs, threads,
                   transport, fault, link>>

\* transmitMessage(message)
transmitMessage(message) == TransmitAfter(<<>>, message) /\ UNCHANGED valves

\* The buttons wired in initUI to a fixed command.
CommandButton(key) ==
    /\ GuiIdle
    /\ Input
    /\ transmitMessage(COMMANDS[key])

InterlockedIgnite ==
    /\ state_["FUEL_RELEASE:"] # "OPEN" \/ state_["OX_RELEASE:"] # "OPEN"
    /\ CommandButton(<<"IGN">>)
Ignite == CommandButton(<<"IGN">>)
CloseAllResetsValves ==
    /\ GuiIdle
    /\ Input
    /\ TransmitAfter(<<>>, COMMANDS[<<"CLOSE_ALL">>])
    /\ state_' = [v \in ValveKey |-> "CLOSE"]
    /\ label_' = [v \in ValveKey |-> LabelText(v, "CLOSE")]
CloseAll == CommandButton(<<"CLOSE_ALL">>)
OpenAll == CommandButton(<<"OPEN_ALL">>)

SameValveState(v, state) == state_
ValveStateIfSent(v, state) ==
    IF is_open[serial_connection] THEN [state_ EXCEPT ![v] = state] ELSE state_
SharedValveState(v, state) == [w \in ValveKey |-> state]
\* state_ of every valve switch once switch v has assigned self.state_ = state
NewValveState(v, state) == [state_ EXCEPT ![v] = state]

\* ValveSwitch.proxy_callback_(state) of switch v, a click on its O, C or N
\* button: the state and the label are set, then the callback given in
\* initUI says so on the terminal and transmits the valve's command
proxy_callback_(v, state) ==
    /\ GuiIdle
    /\ Input
    /\ state_' = NewValveState(v, state)
    /\ label_' = [label_ EXCEPT ![v] = LabelText(v, state_'[v])]
    /\ TransmitAfter(<< <<ValveName[v], " : ", state>> >>, COMMANDS[<<v, state>>])

NeverFalsy(text) == FALSE
\* `not text` of a str: true of the empty string only
NotText(text) == text = <<>>

\* sendUserCommand with user_input in the command field; an empty field
\* returns before anything is built or sent
sendUserCommand(user_input) ==
    /\ GuiIdle
    /\ IF NotText(user_input)
       THEN UNCHANGED vars
       ELSE Input /\ transmitMessage(<<"CMD:">> \o user_input \o <<"\n">>)

\* PlotDataItem.setData / PlotWidget.plot given the samples: pyqtgraph may
\* or may not raise on a sample that is no number
SetDataOutcomes(samples) ==
    IF \A t \in samples : IsNumber(t) THEN {"none"} ELSE {"none", "TypeError"}

\* displaySerialData(data) up to the exception it raises, if any:
\* [exc, psi, load] with psi and load the samples appended before that.
DisplayEffect(data) ==
    IF ~StartsWith(data, "TLM:") THEN {[exc |-> "none", psi |-> <<>>, load |-> <<>>]}
    ELSE LET msg == JsonLoads(Tail(data)) IN
        IF msg.kind = "error"
            THEN {[exc |-> "JSONDecodeError", psi |-> <<>>, load |-> <<>>]}
        ELSE IF msg.kind # "dict"
            THEN {[exc |-> "TypeError", psi |-> <<>>, load |-> <<>>]}
        ELSE IF "psi_fuel" \notin msg.keys \/ "psi_ox" \notin msg.keys
            THEN {[exc |-> "KeyError", psi |-> <<>>, load |-> <<>>]}
        ELSE LET sample == <<msg.val["psi_fuel"], msg.val["psi_ox"]>> IN
            IF ~(IsNumber(sample[1]) /\ IsNumber(sample[2]))
            THEN {[exc |-> e, psi |-> <<sample>>, load |-> <<>>] :
                     e \in SetDataOutcomes({sample[1], sample[2]}) \ {"none"}}
                 \cup {[exc |-> "none", psi |-> <<sample>>, load |-> <<>>]}
            ELSE IF "load" \notin msg.keys
                THEN {[exc |-> "none", psi |-> <<sample>>, load |-> <<>>]}
            ELSE IF ~IsNumber(msg.val["load"])
                THEN {[exc |-> "TypeError", psi |-> <<sample>>, load |-> <<>>]}
            ELSE {[exc |-> "none", psi |-> <<sample>>,
                   load |-> <<g_to_N(NumVal[msg.val["load"]])>>]}

\* the line displaySerialData appends to the terminal when it raises nothing
DisplayLine(data) ==
    IF StartsWith(data, "TLM:") THEN <<"LoRa Home: ">> \o data ELSE <<"Debug: ">> \o data

\* The GUI thread runs the slot for the oldest queued data_received emission.
\* An exception leaving a slot ends the process (PyQt6 calls qFatal).
displaySerialData ==
    /\ GuiIdle
    /\ guiQueue # <<>>
    /\ LET data == Head(guiQueue).data IN
       \E eff \in DisplayEffect(data) :
          /\ psi_data' = psi_data \o eff.psi
          /\ load_data' = load_data \o eff.load
          /\ fault' = eff.exc
          /\ serial_terminal' =
                IF eff.exc = "none" THEN Append(serial_terminal, DisplayLine(data))
                ELSE serial_terminal
    /\ guiQueue' = Tail(guiQueue)
    /\ UNCHANGED <<config, valves, panel, is_open, guiPc, threads, transport, written,
                   link, issued, budget>>

\* closeEvent up to the wait(): self.serial_monitor is read first, and the
\* attribute does not exist until a connect has succeeded
CloseEventBegin ==
    /\ GuiIdle
    /\ IF serial_monitor = 0
       THEN /\ fault' = "AttributeError"
            /\ UNCHANGED <<guiPc, threads>>
       ELSE /\ StopAndQuit(serial_monitor)
            /\ guiPc' = "close_wait"
            /\ UNCHANGED <<mpc, fault>>
    /\ UNCHANGED <<config, valves, panel, is_open, guiQueue, serial_terminal, graphs,
                   transport, written, link, issued, budget>>

\* closeEvent from the wait() on: close the handle if it is open
CloseEventFinish ==
    /\ guiPc = "close_wait"
    /\ fault = "none"
    /\ WaitReturns(serial_monitor_thread)
    /\ guiPc' = "idle"
    /\ is_open' = IF IsOpen(serial_connection) THEN AfterClose(serial_connection)
                  ELSE is_open
    /\ rx' = [rx EXCEPT ![serial_connection] = 0]
    /\ partial' = [partial EXCEPT ![serial_connection] = FALSE]
    /\ link' = "Disconnected"
    /\ UNCHANGED <<config, valves, panel, guiQueue, serial_terminal, graphs, threads,
                   written, fault, issued, budget>>

\* --------------------------------------------------------- monitor thread
\* Monitor i reads handle i.  Positions of its thread:
\*   "unborn"   not created          "started"  QThread.start() called
\*   "loop"     at `while self._running`
\*   "read"     in readline()        "returned" run() has returned
\*   "finished" the thread has finished
InRun == {"loop", "read"}

\* data_received.emit(text) by monitor i: queued for the GUI thread
EmitIfRunning(i, text) ==
    guiQueue' = IF running[i]
                THEN Append(guiQueue, [src |-> i, data |-> text, stopped |-> FALSE])
                ELSE guiQueue
\* data_received.emit(text) by monitor i: a queued call of the GUI thread's
\* slot; stopped notes whether stop() had been called on the monitor by then
Emit(i, text) ==
    guiQueue' = Append(guiQueue, [src |-> i, data |-> text, stopped |-> ~running[i]])

\* the started signal runs SerialMonitor.run on the new thread
MonitorStart(i) ==
    /\ fault = "none"
    /\ mpc[i] = "started"
    /\ mpc' = [mpc EXCEPT ![i] = "loop"]
    /\ UNCHANGED <<config, valves, panel, is_open, guiPc, guiQueue, serial_terminal, graphs,
                   running, quitReq, transport, written, fault, link, issued, budget>>

\* What evaluating in_waiting on handle h can do: the number of bytes
\* waiting, or an exception (the port is closed, or the ioctl fails).
InWaitingOutcomes(h) ==
    IF ~is_open[h] THEN {"PortNotOpenError"}
    ELSE {IF rx[h] > 0 \/ partial[h] THEN "some" ELSE "zero", "SerialException"}

\* while self._running: if self.serial_connection.in_waiting:
\* (in_waiting is evaluated outside the try; an exception leaving the slot
\* ends the process)
MonitorLoop(i) ==
    /\ fault = "none"
    /\ mpc[i] = "loop"
    /\ IF ~running[i]
       THEN mpc' = [mpc EXCEPT ![i] = "returned"] /\ UNCHANGED fault
       ELSE \E o \in InWaitingOutcomes(i) :
               CASE o = "some" -> mpc' = [mpc EXCEPT ![i] = "read"] /\ UNCHANGED fault
                 [] o = "zero" -> UNCHANGED <<mpc, fault>>
                 [] OTHER -> fault' = o /\ UNCHANGED mpc
    /\ UNCHANGED <<config, valves, panel, is_open, guiPc, guiQueue, serial_terminal, graphs,
                   running, quitReq, transport, written, link, issued, budget>>

\* readline() on handle h returns once a whole line is in the buffer (the
\* port is opened without a timeout)
ReadlineReturns(h) == rx[h] > 0

\* line = readline().decode(errors="ignore").strip(); emit(line) -- in the try
MonitorRead(i, line) ==
    /\ fault = "none"
    /\ mpc[i] = "read"
    /\ is_open[i]
    /\ ReadlineReturns(i)
    /\ Emit(i, Strip(line))
    /\ rx' = [rx EXCEPT ![i] = rx[i] - 1]
    /\ mpc' = [mpc EXCEPT ![i] = "loop"]
    /\ UNCHANGED <<config, valves, panel, is_open, guiPc, serial_terminal, graphs, running,
                   quitReq, partial, written, fault, link, issued, budget>>

\* readline() raises: except Exception as e: emit(f"ERROR: Read error {e}")
MonitorReadError(i) ==
    /\ fault = "none"
    /\ mpc[i] = "read"
    /\ \/ ~is_open[i] /\ UNCHANGED nInputs
       \/ is_open[i] /\ Input
    /\ Emit(i, <<"ERROR: ", "Read error ", "SerialException">>)
    /\ mpc' = [mpc EXCEPT ![i] = "loop"]
    /\ UNCHANGED <<config, valves, panel, is_open, guiPc, serial_terminal, graphs, running,
                   quitReq, transport, written, fault, link, issued>>

\* run() has returned; the thread's event loop exits once quit() was called
ThreadFinish(i) ==
    /\ fault = "none"
    /\ mpc[i] = "returned"
    /\ quitReq[i]
    /\ mpc' = [mpc EXCEPT ![i] = "finished"]
    /\ UNCHANGED <<config, valves, panel, is_open, guiPc, guiQueue, serial_terminal, graphs,
                   running, quitReq, transport, written, fault, link, issued, budget>>

\* ------------------------------------------------------------- the device
\* The device at the far end of handle h sends a whole line,
DeviceSend(h) ==
    /\ fault = "none"
    /\ is_open[h] /\ ~partial[h]
    /\ Input
    /\ rx' = [rx EXCEPT ![h] = rx[h] + 1]
    /\ UNCHANGED <<config, valves, panel, is_open, guiPc, guiQueue, serial_terminal, graphs,
                   threads, partial, written, fault, link, issued>>

\* or the first bytes of a line, without its newline,
DeviceSendPartial(h) ==
    /\ fault = "none"
    /\ is_open[h] /\ ~partial[h]
    /\ Input
    /\ partial' = [partial EXCEPT ![h] = TRUE]
    /\ UNCHANGED <<config, valves, panel, is_open, guiPc, guiQueue, serial_terminal, graphs,
                   threads, rx, written, fault, link, issued>>

\* and later, perhaps, the rest of that line.
DeviceSendRest(h) ==
    /\ fault = "none"
    /\ is_open[h] /\ partial[h]
    /\ partial' = [partial EXCEPT ![h] = FALSE]
    /\ rx' = [rx EXCEPT ![h] = rx[h] + 1]
    /\ UNCHANGED <<config, valves, panel, is_open, guiPc, guiQueue, serial_terminal, graphs,
                   threads, written, fault, link, issued, budget>>

\* ---------------------------------------------------------- specification
Operator ==
    \/ \E path \in PortTexts : setSerialPortPath(path)
    \/ \E baudrate \in BaudTexts : setSerialBaudrate(baudrate)
    \/ ConnectBegin
    \/ Ignite
    \/ CloseAll
    \/ \E user_input \in CommandTexts : sendUserCommand(user_input)
    \/ CloseEventBegin

GuiThread ==
    \/ ConnectFinish
    \/ CloseEventFinish
    \/ displaySerialData

MonitorThread ==
    \E i \in Ids :
        \/ MonitorStart(i)
        \/ MonitorLoop(i)
        \/ \E line \in SessionLines : MonitorRead(i, line)
        \/ MonitorReadError(i)
        \/ ThreadFinish(i)

Device ==
    \E h \in Ids : DeviceSend(h) \/ DeviceSendPartial(h) \/ DeviceSendRest(h)

Next == Operator \/ GuiThread \/ MonitorThread \/ Device

Spec == Init /\ [][Next]_vars

\* The scheduler runs both threads: a step of the monitor thread or of the
\* GUI thread that stays possible is eventually taken.  Nothing obliges the
\* operator or the device to act.
FairSpec == Spec /\ WF_vars(MonitorThread) /\ WF_vars(GuiThread)

\* A session in which the operator has connected once, with the initial
\* configuration, and then only watches: the device may send any line.
DecodeInit ==
    /\ serial_port_path = "/dev/pts/6"
    /\ serial_baudrate = "115200"
    /\ serial_connection = 1
    /\ serial_monitor = 1
    /\ serial_monitor_thread = 1
    /\ is_open = [h \in Handles |-> h = 1]
    /\ guiPc = "idle"
    /\ guiQueue = <<>>
    /\ serial_terminal = << <<"Serial connection to ", "/dev/pts/6", " successful.">> >>
    /\ psi_data = <<>>
    /\ load_data = <<>>
    /\ mpc = [i \in Ids |-> IF i = 1 THEN "started" ELSE "unborn"]
    /\ running = [i \in Ids |-> i = 1]
    /\ quitReq = [i \in Ids |-> FALSE]
    /\ rx = [h \in Handles |-> 0]
    /\ partial = [h \in Handles |-> FALSE]
    /\ written = <<>>
    /\ fault = "none"
    /\ link = "Connected"
    /\ issued = <<>>
    /\ nInputs = 1
    /\ state_ = [v \in ValveKey |-> "CLOSE"]
    /\ label_ = [v \in ValveKey |-> LabelText(v, "CLOSE")]

DecodeNext ==
    \/ \E i \in Ids :
          \/ MonitorStart(i)
          \/ MonitorLoop(i)
          \/ \E line \in DeviceLines : MonitorRead(i, line)
          \/ MonitorReadError(i)
    \/ Device
    \/ displaySerialData

DecodeSpec == DecodeInit /\ [][DecodeNext]_vars

\* A session at the valve panel: the operator clicks the switches of two of
\* the valves, connects and closes the window, with the initial
\* configuration; the device is silent.
SessionValves == {"FUEL_PRESSURIZATION:", "OX_RELEASE:"}

ValveOperator ==
    \/ \E v \in SessionValves, state \in ValveValue : proxy_callback_(v, state)
    \/ ConnectBegin
    \/ CloseEventBegin

ValveNext ==
    \/ ValveOperator
    \/ ConnectFinish
    \/ CloseEventFinish
    \/ \E i \in Ids : MonitorStart(i) \/ MonitorLoop(i) \/ ThreadFinish(i)

ValveSpec == Init /\ [][ValveNext]_vars

\* Every widget of initUI that sends a command of the COMMANDS table is
\* clicked, in any order, before any connect.
EncodeNext ==
    \/ \E v \in ValveKey, state \in ValveValue : proxy_callback_(v, state)
    \/ Ignite
    \/ CloseAll
    \/ OpenAll

EncodeSpec == Init /\ [][EncodeNext]_vars

\* A session in which the operator has connected once, with the initial
\* configuration, and then uses every command widget and the command field;
\* the device is silent.
CommandNext ==
    \/ \E v \in ValveKey, state \in ValveValue : proxy_callback_(v, state)
    \/ Ignite
    \/ CloseAll
    \/ OpenAll
    \/ \E user_input \in CommandTexts : sendUserCommand(user_input)
    \/ \E i \in Ids : MonitorStart(i) \/ MonitorLoop(i)

CommandSpec == DecodeInit /\ [][CommandNext]_vars

\* ------------------------------------------------------------ properties
LiveLoops == {i \in Ids : mpc[i] \notin {"unborn", "finished"}}
OpenHandles == {h \in Handles : is_open[h]}
\* the handle, monitor and thread made by the latest successful connect
Newest == NewId - 1
SuccessLine(path) == <<"Serial connection to ", path, " successful.">>
NotConnectedLine == <<"Not connected.">>
\* exceptions raised while a received line is decoded and displayed
DecodeFaults == {"JSONDecodeError", "TypeError", "KeyError"}

\* C1: when a connectToHome call has returned with success, the monitor
\* thread and the handle it made are the only live thread and the only open
\* handle; every earlier thread has finished and every earlier handle is closed.
C1_OneLoopOneHandle ==
    (guiPc = "idle" /\ link = "Connected") =>
        /\ LiveLoops = {Newest}
        /\ OpenHandles = {Newest}
        /\ serial_connection = Newest /\ serial_monitor_thread = Newest
        /\ \A i \in 1..(Newest - 1) : mpc[i] = "finished" /\ ~is_open[i]

\* a second connect, with another port path, has succeeded after a first
C1_Witness ==
    /\ guiPc = "idle" /\ link = "Connected" /\ serial_connection = 2
    /\ \E j, k \in 1..Len(serial_terminal) :
          /\ j < k
          /\ serial_terminal[j] = SuccessLine("/dev/pts/6")
          /\ serial_terminal[k] = SuccessLine("/dev/ttyUSB0")

\* C2: at most one monitor is inside run() at any time, and a monitor thread
\* exists only once every earlier one has finished.
C2_OneMonitorAtATime ==
    /\ Cardinality({i \in Ids : mpc[i] \in InRun}) <= 1
    /\ \A i, j \in Ids : (i < j /\ mpc[j] # "unborn") => mpc[i] = "finished"

\* the second monitor is inside run()
C2_Witness == mpc[2] \in InRun /\ mpc[1] = "finished"

\* C3: a monitor that is inside run() has an open handle: no teardown closes
\* the handle before the loop reading it has exited.
C3_RunningHasOpenHandle == \A i \in Ids : mpc[i] \in InRun => is_open[i]

\* closeEvent waits for the second monitor, which has been told to stop and
\* is still in readline(); the first was torn down by the second connect
C3_Witness ==
    /\ guiPc = "close_wait" /\ serial_monitor = 2
    /\ mpc[2] = "read" /\ ~running[2] /\ is_open[2]
    /\ mpc[1] = "finished" /\ ~is_open[1]

\* C4: once a monitor inside run() has been told to stop, its run() returns
\* (or the process has ended), whatever the input buffer holds.
C4_StopLeadsToStopped ==
    \A i \in Ids :
        (mpc[i] \in InRun /\ ~running[i])
            ~> (mpc[i] \in {"returned", "finished"} \/ fault # "none")

\* a transport error in monitor i's loop body: raised by readline(), or by
\* in_waiting
IOErrorStep(i) == MonitorReadError(i) \/ (MonitorLoop(i) /\ fault' # "none")

\* C5: a transport error in any step of the loop body queues exactly one
\* event whose text starts with "ERROR: " and leaves the loop running.
C5_IOErrorCaught ==
    [][\A i \in Ids :
          IOErrorStep(i) =>
              /\ Len(guiQueue') = Len(guiQueue) + 1
              /\ StartsWith(Last(guiQueue').data, "ERROR: ")
              /\ mpc'[i] = "loop"
              /\ fault' = "none"]_vars

\* C6: decoding a received line never raises.
C6_DecodeNeverRaises == fault \notin DecodeFaults

\* C7: a malformed line does not end the process: no well-formed line read
\* after it is left undelivered.
C7_MalformedNotFatal ==
    ~(/\ fault \in DecodeFaults
      /\ \E k \in 1..Len(guiQueue) :
            guiQueue[k].data \in {Strip(l) : l \in WellFormedLines})

\* a command is handed to transmitMessage in this step
WriteStep == Len(issued') = Len(issued) + 1

\* C8: a write while the link is not Connected reports "Not connected.",
\* writes nothing and changes nothing of the connection.
C8_WriteWhenNotConnected ==
    [][(WriteStep /\ link # "Connected") =>
          /\ written' = written
          /\ serial_terminal' = Append(serial_terminal, NotConnectedLine)
          /\ link' = link
          /\ is_open' = is_open
          /\ panel' = panel]_vars

\* a write was refused after a connection had been made and lost
C8_Witness ==
    /\ link # "Connected"
    /\ serial_terminal # <<>> /\ Last(serial_terminal) = NotConnectedLine
    /\ \E k \in 1..Len(serial_terminal), path \in PortTexts :
          serial_terminal[k] = SuccessLine(path)

IssuedWhileConnected(e) == e.link = "Connected"
FramesOf(log) == [k \in 1..Len(log) |-> log[k].frame]

C10_CloseEventNeverRaises == fault # "AttributeError"

\* The wire table of the command set: Ignite, CloseAll, OpenAll and
\* SetValve(valve, state) with valves V1 FuelPressurization,
\* V2 FuelDepressurization, V3 FuelRelease, V4 OxRelease.
ValveNumber == [v \in ValveKey |->
                   IF v = "FUEL_PRESSURIZATION:" THEN "V1:"
                   ELSE IF v = "FUEL_DEPRESSURIZATION:" THEN "V2:"
                   ELSE IF v = "FUEL_RELEASE:" THEN "V3:"
                   ELSE "V4:"]
WireFrame(key) ==
    IF Len(key) = 1 THEN <<"CMD:", key[1], "\n">>
    ELSE <<"CMD:", ValveNumber[key[1]], key[2], "\n">>

\* C11: encoding is defined for every command of the closed command set
\* (Ignite, CloseAll, OpenAll and the twelve SetValve commands), gives each
\* command exactly the frame of the wire table, and gives no two commands
\* the same frame; every frame a command widget hands over is such a frame.
C11_EncodeIsTheWireTable ==
    /\ CommandKeys \subseteq DOMAIN COMMANDS
    /\ \A key \in CommandKeys : COMMANDS[key] = WireFrame(key)
    /\ \A k1, k2 \in CommandKeys : COMMANDS[k1] = COMMANDS[k2] => k1 = k2
    /\ \A n \in 1..Len(issued) :
          \E key \in CommandKeys : issued[n].frame = WireFrame(key)

C11_Witness ==
    \E m, n \in 1..Len(issued) :
        /\ issued[m].frame = <<"CMD:", "V3:", "NEUTRAL", "\n">>
        /\ issued[n].frame = <<"CMD:", "OPEN_ALL", "\n">>

\* the commands issued to valve v, in order
ValveCommands(v) == SelectSeq(issued, LAMBDA e : e.frame[2] = ValveNumber[v])

\* C12: a click that sets a valve switch to a state always sets the tracked
\* state to it and issues exactly one SetValve command for that valve and
\* state, whatever the state was before and whether or not it changes; so
\* the commands of a valve are one per click in click order and its tracked
\* state is the state of the last of them.
C12_SetStateUnconditional ==
    [][\A v \in ValveKey, state \in ValveValue :
          proxy_callback_(v, state) =>
              /\ state_'[v] = state
              /\ issued' = Append(issued, [frame |-> WireFrame(<<v, state>>),
                                           link |-> link])
              /\ Last(ValveCommands(v)').frame[3] = state_'[v]]_vars

C12_Witness ==
    /\ Len(issued) >= 3
    /\ issued[1].frame = <<"CMD:", "V1:", "CLOSE", "\n">>
    /\ issued[2].frame = <<"CMD:", "V1:", "OPEN", "\n">>
    /\ issued[3].frame = <<"CMD:", "V1:", "OPEN", "\n">>
    /\ issued[3].link = "Connected"
    /\ state_["FUEL_PRESSURIZATION:"] = "OPEN"

\* C13: every valve starts CLOSE, and a click on one valve switch leaves the
\* tracked state and the label of the other three as they were.
C13_ValvesIndependent ==
    /\ \A v \in ValveKey : state_[v] = "CLOSE"
    /\ [][\A v \in ValveKey, state \in ValveValue :
             proxy_callback_(v, state) =>
                 \A w \in ValveKey \ {v} :
                     state_'[w] = state_[w] /\ label_'[w] = label_[w]]_vars

C13_Witness ==
    /\ state_["FUEL_PRESSURIZATION:"] = "OPEN"
    /\ state_["FUEL_DEPRESSURIZATION:"] = "NEUTRAL"
    /\ state_["FUEL_RELEASE:"] = "CLOSE"
    /\ state_["OX_RELEASE:"] = "OPEN"
    /\ Len(issued) = 4

\* C14: connecting, with success or with failure, and closing the link
\* leave the tracked state of every valve as it was.
C14_LinkLeavesValves ==
    [][(ConnectBegin \/ ConnectFinish \/ CloseEventBegin \/ CloseEventFinish)
          => state_' = state_]_vars

C14_Witness ==
    /\ state_["OX_RELEASE:"] = "NEUTRAL"
    /\ Len(issued) = 1
    /\ issued[1].link = "Disconnected"
    /\ link = "Disconnected"
    /\ serial_monitor # 0
    /\ guiPc = "idle"

\* a connectToHome call returns
ConnectReturns == guiPc = "connect_wait" /\ guiPc' = "idle"
InvalidBaudLine(baudrate) == <<"VALUE EXCEPTION: Invalid baudrate ", baudrate, ".">>
PortOpenFailedLine(path) ==
    <<"SERIAL EXCEPTION: Connection to serial port ", path, " failed.">>
PositiveIntText(t) == IsIntText(t) /\ IntOf[t] > 0

\* C15: a connect with a baud rate that is not a positive integer (a text
\* that is no number, zero, a negative number) fails with InvalidBaud: no
\* handle is open afterwards, no monitor loop has been started, and the one
\* message appended is the invalid-baudrate message.
C15_InvalidBaudRejected ==
    [][(ConnectReturns /\ ~PositiveIntText(serial_baudrate)) =>
          /\ OpenHandles' = {}
          /\ mpc' = mpc
          /\ serial_terminal' = Append(serial_terminal, InvalidBaudLine(serial_baudrate))]_vars

\* C16: when a connect has failed, whatever the state before it, the
\* operator is not told Connected, no handle is open and no monitor loop is
\* live (a connection that was live before has been torn down and is not
\* restored), exactly one message, the failure message, has been appended
\* by the call, and this stays so while the GUI is idle; a handle is opened
\* inside a connect call only.
C16_FailedConnectLeavesNothing ==
    [][/\ (ConnectReturns /\ link' = "FailedToOpen") =>
              /\ serial_terminal' \in
                     {Append(serial_terminal, InvalidBaudLine(serial_baudrate)),
                      Append(serial_terminal, PortOpenFailedLine(serial_port_path))}
              /\ UNCHANGED <<panel, written>>
       /\ (link' = "FailedToOpen" /\ guiPc' = "idle") =>
              OpenHandles' = {} /\ LiveLoops' = {}
       /\ (\E h \in Handles : is_open'[h] /\ ~is_open[h]) => ConnectReturns]_vars

C16_Witness ==
    /\ link = "FailedToOpen"
    /\ guiPc = "idle"
    /\ serial_monitor_thread # 0
    /\ Len(serial_terminal) = 2
    /\ Last(serial_terminal) = PortOpenFailedLine("/dev/ttyUSB0")

RawFrame(text) == <<"CMD:">> \o text \o <<"\n">>

\* C17: sending the command field while it is empty hands nothing to the
\* link, writes nothing and says nothing, connected or not, so the frame of
\* an empty text is never issued; sending a non-empty text issues exactly
\* "CMD:" + text + "\n", and writes it if the link is open.
C17_RawCommand ==
    [][/\ \A text \in CommandTexts :
              sendUserCommand(text) =>
                  IF text = <<>>
                  THEN UNCHANGED <<issued, written, serial_terminal>>
                  ELSE /\ issued' = Append(issued, [frame |-> RawFrame(text),
                                                    link |-> link])
                       /\ is_open[serial_connection] =>
                              written' = Append(written,
                                             <<serial_connection, RawFrame(text)>>)
       /\ \A n \in 1..Len(issued') : issued'[n].frame # RawFrame(<<>>)]_vars

C17_Witness ==
    /\ Len(written) = 1
    /\ written[1][2] = <<"CMD:", "V2:30", "\n">>
    /\ Len(issued) = 2
    /\ issued[1] = [frame |-> <<"CMD:", "V2:30", "\n">>, link |-> "Disconnected"]

\* the GUI thread takes the oldest queued line and handles it
DisplayStep == Len(guiQueue') < Len(guiQueue)
Displayed == Head(guiQueue).data

\* C18: a line that starts with "HBT:" is decoded as a heartbeat; it is not
\* shown as a debug line (and not as telemetry).
C18_HeartbeatNotDebug ==
    \A n \in 1..Len(serial_terminal) :
        LET shown == serial_terminal[n] IN
        ~(Len(shown) >= 2 /\ shown[1] \in {"Debug: ", "LoRa Home: "} /\ shown[2] = "HBT:")

\* C19: a non-empty line that starts with neither "TLM:" nor "HBT:" is shown
\* as a debug line carrying exactly its text, appends no pressure and no
\* thrust sample, and raises nothing.
C19_OtherLinesAreDebug ==
    [][(DisplayStep /\ Displayed # <<>> /\ Head(Displayed) \notin {"TLM:", "HBT:"}) =>
          /\ serial_terminal' = Append(serial_terminal, <<"Debug: ">> \o Displayed)
          /\ UNCHANGED graphs
          /\ fault' = "none"]_vars

C19_Witness ==
    /\ Len(serial_terminal) = 3
    /\ serial_terminal[2] = <<"Debug: ", "hello world">>
    /\ serial_terminal[3] = <<"Debug: ", "echo ", "TLM:", "{", "psi_fuel", "500",
                               "psi_ox", "600", "}">>
    /\ psi_data = <<>>
    /\ load_data = <<>>

\* What the well-formed telemetry lines say: psi_fuel, psi_ox, and the load
\* in grams-force if there is one.
Telemetry ==
    (Strip(TlmLine) :> [psi_fuel |-> 500, psi_ox |-> 600, load |-> <<>>])
    @@ (Strip(TlmLoadLine) :> [psi_fuel |-> 500, psi_ox |-> 600, load |-> <<1000>>])
    @@ (Strip(TlmSwappedLine) :> [psi_fuel |-> 600, psi_ox |-> 1000, load |-> <<>>])

\* C20: a well-formed "TLM:" line with numeric psi_fuel and psi_ox appends
\* one pressure sample with exactly those two values; if it has a load, one
\* thrust sample of load * 9.81 / 1000 newtons is appended (held in
\* micro-newtons: sample * 100 = load * 981 * 1000), and none otherwise.
C20_TelemetryValues ==
    [][(DisplayStep /\ Displayed \in DOMAIN Telemetry) =>
          LET t == Telemetry[Displayed] IN
          /\ Len(psi_data') = Len(psi_data) + 1
          /\ SubSeq(psi_data', 1, Len(psi_data)) = psi_data
          /\ NumVal[Last(psi_data')[1]] = t.psi_fuel
          /\ NumVal[Last(psi_data')[2]] = t.psi_ox
          /\ IF t.load = <<>> THEN load_data' = load_data
             ELSE /\ Len(load_data') = Len(load_data) + 1
                  /\ SubSeq(load_data', 1, Len(load_data)) = load_data
                  /\ Last(load_data') * 100 = t.load[1] * 981 * 1000
          /\ fault' = "none"]_vars

C20_Witness ==
    /\ psi_data = << <<"600", "1000">>, <<"500", "600">> >>
    /\ load_data = <<9810000>>
    /\ guiQueue = <<>>

\* Idle, Running and Stopped of a monitor, in order: not run yet, in run()'s
\* loop, out of it.
LoopStage(i) ==
    IF mpc[i] \in {"unborn", "started"} THEN 0
    ELSE IF mpc[i] \in InRun THEN 1
    ELSE 2

\* C21: a monitor goes from idle to running to stopped only: its stage never
\* goes back, and once its stop() has been called _running stays false; a
\* connect that succeeds makes a monitor that did not exist before, bound to
\* the handle it has just opened, and leaves the stopped ones stopped.
C21_MonitorNeverRestarts ==
    [][/\ \A i \in Ids :
              /\ LoopStage(i)' >= LoopStage(i)
              /\ (mpc[i] # "unborn" /\ ~running[i]) => ~running'[i]
       /\ (ConnectReturns /\ link' = "Connected") =>
              /\ mpc[serial_monitor'] = "unborn"
              /\ serial_monitor' = serial_connection'
              /\ serial_monitor_thread' = serial_monitor'
              /\ is_open'[serial_connection'] /\ ~is_open[serial_connection']
              /\ running'[serial_monitor']]_vars

C21_Witness ==
    /\ serial_monitor = 2
    /\ mpc[1] = "finished" /\ ~running[1]
    /\ mpc[2] = "read" /\ running[2]
    /\ is_open[2] /\ ~is_open[1]

\* monitor i has read a whole line from its handle
FrameRead(i) == rx'[i] = rx[i] - 1 /\ is_open'[i]

\* C22: a line the monitor has read is forwarded exactly once, at the end of
\* what was forwarded before it, also when stop() has been called in that
\* iteration; what is forwarded is delivered oldest first, and nothing else
\* takes an event away or puts one in.
C22_ReadFramesForwardedOnce ==
    [][/\ \A i \in Ids :
              FrameRead(i) =>
                  \E line \in SessionLines :
                      guiQueue' = Append(guiQueue, [src |-> i, data |-> Strip(line),
                                                    stopped |-> ~running[i]])
       /\ guiQueue' # guiQueue =>
              \/ /\ Len(guiQueue') = Len(guiQueue) + 1
                 /\ SubSeq(guiQueue', 1, Len(guiQueue)) = guiQueue
                 /\ mpc[Last(guiQueue').src] = "read"
              \/ /\ guiQueue # <<>>
                 /\ guiQueue' = Tail(guiQueue)
                 /\ GuiIdle]_vars

C22_Witness ==
    /\ Len(guiQueue) = 2
    /\ ~guiQueue[1].stopped
    /\ guiQueue[2].stopped
    /\ guiQueue[2].data = <<"hello world">>
    /\ mpc[guiQueue[2].src] = "finished"

\* the operator can make one more input
CanAct == GuiIdle /\ nInputs < MaxInputs

C24_SetStateWithoutLink ==
    [][\A v \in ValveKey, state \in ValveValue :
          proxy_callback_(v, state) =>
              /\ state_'[v] = state
              /\ label_'[v] = <<ValveName[v], " [", state, "]">>
              /\ IF is_open[serial_connection]
                 THEN written' = Append(written,
                                     <<serial_connection, WireFrame(<<v, state>>)>>)
                 ELSE /\ written' = written
                      /\ Last(serial_terminal') = NotConnectedLine]_vars

C24_Witness ==
    /\ link = "FailedToOpen"
    /\ state_["OX_RELEASE:"] = "NEUTRAL"
    /\ label_["OX_RELEASE:"] = <<"OX Release Valve", " [", "NEUTRAL", "]">>
    /\ written = <<>>
    /\ Len(issued) = 1
    /\ Last(serial_terminal) = NotConnectedLine
    /\ issued[1].link = "FailedToOpen"

\* C25: Ignite, CloseAll, OpenAll and a command sent from the command field
\* leave the tracked state and the label of all four valves as they were:
\* after CloseAll or OpenAll has been transmitted every valve still holds
\* what its last click set, or the initial CLOSE.
C25_CommandsLeaveValves ==
    [][(Ignite \/ CloseAll \/ OpenAll
           \/ \E user_input \in CommandTexts : sendUserCommand(user_input))
          => state_' = state_ /\ label_' = label_]_vars

C25_Witness ==
    /\ state_["FUEL_RELEASE:"] = "OPEN"
    /\ state_["OX_RELEASE:"] = "CLOSE"
    /\ Len(written) = 3
    /\ written[1][2] = <<"CMD:", "V3:", "OPEN", "\n">>
    /\ written[2][2] = <<"CMD:", "CLOSE_ALL", "\n">>
    /\ written[3][2] = <<"CMD:", "V2:30", "\n">>

ConfigEdited == serial_port_path' # serial_port_path \/ serial_baudrate' # serial_baudrate

\* C26: an edit of the port path or of the baudrate changes the stored
\* configuration only: the handle, the monitor and its thread, what the
\* operator was told and what was written stay as they are; the values are
\* used when connectToHome is called next, which reports on the path and
\* the baudrate stored at that time.
C26_EditChangesConfigOnly ==
    [][/\ ConfigEdited =>
              UNCHANGED <<panel, is_open, threads, transport, guiPc, guiQueue,
                          serial_terminal, written, link, issued, fault>>
       /\ ConnectReturns =>
              /\ ~ConfigEdited
              /\ Last(serial_terminal') \in
                     {SuccessLine(serial_port_path),
                      PortOpenFailedLine(serial_port_path),
                      InvalidBaudLine(serial_baudrate)}
              /\ ~IsIntText(serial_baudrate) =>
                     Last(serial_terminal') = InvalidBaudLine(serial_baudrate)]_vars

C26_Witness ==
    /\ serial_port_path = "/dev/ttyUSB0"
    /\ serial_baudrate = "abc"
    /\ link = "Connected"
    /\ serial_terminal = << SuccessLine("/dev/pts/6") >>
    /\ is_open[1]
    /\ mpc[1] \in InRun

\* C27: once a connect that replaces a connection has returned, the console
\* is handed no event that the monitor of the replaced connection produced:
\* every event it handles comes from the current monitor.
C27_NoEventOfReplacedMonitor ==
    [][DisplayStep => Head(guiQueue).src = serial_monitor]_vars

\* C28: with a baudrate text that is no integer and a port path that cannot
\* be opened, connecting fails on the baudrate: the one message appended is
\* the invalid-baudrate one, not the port one, and nothing is opened or
\* started.
C28_BaudParsedBeforeOpen ==
    [][(ConnectReturns /\ ~IsIntText(serial_baudrate)
            /\ serial_port_path \notin DevicePorts) =>
          /\ serial_terminal' = Append(serial_terminal, InvalidBaudLine(serial_baudrate))
          /\ OpenHandles' = {}
          /\ mpc' = mpc
          /\ link' = "FailedToOpen"]_vars

C28_Witness ==
    /\ serial_port_path = "/dev/ttyUSB9"
    /\ serial_baudrate = "abc"
    /\ link = "FailedToOpen"
    /\ guiPc = "idle"
    /\ Last(serial_terminal) = InvalidBaudLine("abc")

====
